---- MODULE Spec2Model ----
(***************************************************************************)
(* Model of scripts/monitor.py and scripts/config.py: the container log    *)
(* scanner and its line classifier, the published (retained) MQTT state,   *)
(* the kernel error check, the update trigger callback and the main loop.  *)
(*                                                                         *)
(* Text is a sequence of one-character strings; "ESC" stands for the       *)
(* character \x1b.  A log text is the sequence of its lines, that is the   *)
(* value of logs.splitlines().  A payload is kept as the value handed to   *)
(* mqtt_publish (json.dumps and str are injective on these values).        *)
(***************************************************************************)
EXTENDS Integers, Sequences, FiniteSets, TLC

VARIABLES
    line,                   \* classifier: the raw line under scan
    clean_line,             \* classifier: the line after strip() and re.sub
    verdict,                \* classifier: the event appended, or no event
    retained,               \* broker: topic -> last retained payload
    containers_with_errors, \* monitor.py:46
    discovered_containers,  \* monitor.py:43
    name,                   \* check_container_logs: loop variable
    errors,                 \* check_container_logs: events of the last scan
    matches,                \* check_kernel_errors: events of the last dmesg
    outcome,                \* what the last executed step was
    now,                    \* the clock read by datetime.now()
    pc,                     \* main(): position of the main thread
    todo,                   \* check_container_logs: names still to iterate
    update_triggered,       \* monitor.py:40
    msg                     \* on_message: the last message delivered

vars == <<line, clean_line, verdict, retained, containers_with_errors,
          discovered_containers, name, errors, matches, outcome, now,
          pc, todo, update_triggered, msg>>

classifyVars == <<line, clean_line, verdict>>
trackerVars == <<retained, containers_with_errors, discovered_containers,
                 name, errors, matches, outcome>>
loopVars == <<pc, todo, update_triggered, msg>>

-----------------------------------------------------------------------------
(* Bounds *)

MaxFrags == 3

MaxLines == 3

MaxTime == 1

-----------------------------------------------------------------------------
(* Text helpers: str.lower(), str.strip(), the `in` operator, slicing *)

UpperChars ==
    <<"A", "B", "C", "D", "E", "F", "G", "H", "I", "J", "K", "L", "M",
      "N", "O", "P", "Q", "R", "S", "T", "U", "V", "W", "X", "Y", "Z">>

LowerChars ==
    <<"a", "b", "c", "d", "e", "f", "g", "h", "i", "j", "k", "l", "m",
      "n", "o", "p", "q", "r", "s", "t", "u", "v", "w", "x", "y", "z">>

Digits == {"0", "1", "2", "3", "4", "5", "6", "7", "8", "9"}

Lower(c) ==
    IF \E i \in 1..26 : UpperChars[i] = c
    THEN LowerChars[CHOOSE i \in 1..26 : UpperChars[i] = c]
    ELSE c

LowerSeq(s) == [i \in 1..Len(s) |-> Lower(s[i])]

IsSpace(c) == c \in {" ", "\t", "\r", "\f"}

IsWordChar(c) ==
    \/ c \in Digits
    \/ c = "_"
    \/ \E i \in 1..26 : c = UpperChars[i] \/ c = LowerChars[i]

RECURSIVE LStrip(_)
LStrip(s) ==
    IF s # <<>> /\ IsSpace(Head(s)) THEN LStrip(Tail(s)) ELSE s

RECURSIVE RStrip(_)
RStrip(s) ==
    IF s # <<>> /\ IsSpace(s[Len(s)])
    THEN RStrip(SubSeq(s, 1, Len(s) - 1))
    ELSE s

Strip(s) == RStrip(LStrip(s))

\* s[:n]
Prefix(s, n) == IF Len(s) <= n THEN s ELSE SubSeq(s, 1, n)

\* s[-n:]
Suffix(s, n) == IF Len(s) <= n THEN s ELSE SubSeq(s, Len(s) - n + 1, Len(s))

\* sub in s   (case-sensitive substring test)
Contains(s, sub) ==
    \E i \in 1..(Len(s) - Len(sub) + 1) : SubSeq(s, i, i + Len(sub) - 1) = sub

-----------------------------------------------------------------------------
(* Regular expression helpers (re.search with re.I, re.sub without flags) *)

\* the lower-case literal lit matches s at position i, ignoring case
MatchAt(s, i, lit) ==
    /\ i >= 1
    /\ i + Len(lit) - 1 <= Len(s)
    /\ \A k \in 1..Len(lit) : Lower(s[i + k - 1]) = lit[k]

\* \b between positions p-1 and p
Boundary(s, p) ==
    LET w(j) == j >= 1 /\ j <= Len(s) /\ IsWordChar(s[j])
    IN  w(p - 1) # w(p)

\* \blit\b at position i
WordAt(s, i, lit) ==
    Boundary(s, i) /\ MatchAt(s, i, lit) /\ Boundary(s, i + Len(lit))

\* first index j >= i with s[j] outside class (Len(s)+1 when there is none)
RECURSIVE SkipClass(_, _, _)
SkipClass(s, i, class) ==
    IF i <= Len(s) /\ s[i] \in class THEN SkipClass(s, i + 1, class) ELSE i

\* "level"\s*:\s*"<word>" at position i; quoted is the literal "<word>"
JsonLevelAt(s, i, quoted) ==
    /\ MatchAt(s, i, <<"\"", "l", "e", "v", "e", "l", "\"">>)
    /\ LET spaces == {" ", "\t", "\r", "\f", "\n"}
           j == SkipClass(s, i + 7, spaces)
       IN  /\ MatchAt(s, j, <<":">>)
           /\ MatchAt(s, SkipClass(s, j + 1, spaces), quoted)

\* index after the escape sequence that starts at i, 0 when none starts there:
\*   \x1b\[[0-9;]*m | D\[[0-9;]*m | \[\d+m
EscapeEnd(s, i) ==
    LET at(j) == IF j >= 1 /\ j <= Len(s) THEN s[j] ELSE "" IN
    IF at(i) \in {"ESC", "D"} /\ at(i + 1) = "["
    THEN LET j == SkipClass(s, i + 2, Digits \cup {";"})
         IN  IF at(j) = "m" THEN j + 1 ELSE 0
    ELSE IF at(i) = "["
    THEN LET j == SkipClass(s, i + 1, Digits)
         IN  IF j > i + 1 /\ at(j) = "m" THEN j + 1 ELSE 0
    ELSE 0

RECURSIVE StripFrom(_, _)
StripFrom(s, i) ==
    IF i > Len(s) THEN <<>>
    ELSE IF EscapeEnd(s, i) # 0 THEN StripFrom(s, EscapeEnd(s, i))
    ELSE <<s[i]>> \o StripFrom(s, i + 1)

\* re.sub(r'\x1b\[[0-9;]*m|D\[[0-9;]*m|\[\d+m', '', line)
StripAnsi(s) == StripFrom(s, 1)

-----------------------------------------------------------------------------
(* config.py *)

ERROR_KEYWORDS ==
    << <<"E", "R", "R", "O", "R">>,
       <<"C", "R", "I", "T", "I", "C", "A", "L">>,
       <<"W", "A", "R", "N">>,
       <<"W", "A", "R", "N", "I", "N", "G">>,
       <<"E", "x", "c", "e", "p", "t", "i", "o", "n">>,
       <<"F", "A", "T", "A", "L">> >>

KERNEL_ERROR_KEYWORDS ==
    << <<"i", "/", "o", " ", "e", "r", "r", "o", "r">>,
       <<"I", "/", "O", " ", "e", "r", "r", "o", "r">>,
       <<"n", "v", "m", "e">>,
       <<"N", "V", "M", "e">>,
       <<"c", "r", "i", "t", "i", "c", "a", "l", " ", "m", "e", "d", "i", "u", "m", " ", "e", "r", "r", "o", "r">>,
       <<"m", "e", "d", "i", "u", "m", " ", "e", "r", "r", "o", "r">>,
       <<"b", "l", "k", "_", "u", "p", "d", "a", "t", "e", "_", "r", "e", "q", "u", "e", "s", "t">>,
       <<"b", "u", "f", "f", "e", "r", " ", "I", "/", "O", " ", "e", "r", "r", "o", "r">>,
       <<"D", "R", "D", "Y", " ", "E", "R", "R">>,
       <<"r", "e", "s", "e", "t", " ", "f", "a", "i", "l", "e", "d">>,
       <<"t", "i", "m", "e", "o", "u", "t">> >>

-----------------------------------------------------------------------------
(* The line classifier of check_container_logs *)

MSG_MAX == 500

\* any(kw.lower() in clean_line.lower() for kw in ERROR_KEYWORDS)
KeywordMatched(clean) ==
    \E k \in 1..Len(ERROR_KEYWORDS) :
        Contains(LowerSeq(clean), LowerSeq(ERROR_KEYWORDS[k]))

\* \bWARN(ING)?\b|\bWRN\b|level[=:]warn|\[WARN
WarnPattern(s) ==
    \E i \in 1..Len(s) :
        \/ /\ Boundary(s, i)
           /\ MatchAt(s, i, <<"w", "a", "r", "n">>)
           /\ \/ Boundary(s, i + 4)
              \/ MatchAt(s, i + 4, <<"i", "n", "g">>) /\ Boundary(s, i + 7)
        \/ WordAt(s, i, <<"w", "r", "n">>)
        \/ MatchAt(s, i, <<"l", "e", "v", "e", "l", "=", "w", "a", "r", "n">>)
        \/ MatchAt(s, i, <<"l", "e", "v", "e", "l", ":", "w", "a", "r", "n">>)
        \/ MatchAt(s, i, <<"[", "w", "a", "r", "n">>)

\* \bCRITICAL\b|\bFATAL\b|level[=:]critical|"level"\s*:\s*"critical"
CriticalPattern(s) ==
    \E i \in 1..Len(s) :
        \/ WordAt(s, i, <<"c", "r", "i", "t", "i", "c", "a", "l">>)
        \/ WordAt(s, i, <<"f", "a", "t", "a", "l">>)
        \/ MatchAt(s, i, <<"l", "e", "v", "e", "l", "=", "c", "r", "i", "t", "i", "c", "a", "l">>)
        \/ MatchAt(s, i, <<"l", "e", "v", "e", "l", ":", "c", "r", "i", "t", "i", "c", "a", "l">>)
        \/ JsonLevelAt(s, i, <<"\"", "c", "r", "i", "t", "i", "c", "a", "l", "\"">>)

\* \bERROR\b|level[=:]error|"level"\s*:\s*"error"|Exception|Traceback
ErrorPattern(s) ==
    \E i \in 1..Len(s) :
        \/ WordAt(s, i, <<"e", "r", "r", "o", "r">>)
        \/ MatchAt(s, i, <<"l", "e", "v", "e", "l", "=", "e", "r", "r", "o", "r">>)
        \/ MatchAt(s, i, <<"l", "e", "v", "e", "l", ":", "e", "r", "r", "o", "r">>)
        \/ JsonLevelAt(s, i, <<"\"", "e", "r", "r", "o", "r", "\"">>)
        \/ MatchAt(s, i, <<"e", "x", "c", "e", "p", "t", "i", "o", "n">>)
        \/ MatchAt(s, i, <<"t", "r", "a", "c", "e", "b", "a", "c", "k">>)

\* clean_line of a raw line: line.strip(), then the escape sequences removed
CleanLine(raw) == StripAnsi(Strip(raw))

\* a line that is skipped (`continue`) appends nothing
NoEvent == [level |-> "NONE", msg |-> <<>>]

\* slip: the warning test reads the raw line, not clean_line
ScanLineWarnOnRaw(raw) ==
    LET clean == CleanLine(raw)
    IN  IF Strip(raw) = <<>> \/ ~KeywordMatched(clean) \/ WarnPattern(Strip(raw))
        THEN NoEvent
        ELSE [level |-> IF CriticalPattern(clean) THEN "CRITICAL"
                        ELSE IF ErrorPattern(clean) THEN "ERROR"
                        ELSE "ERROR",
              msg |-> Prefix(clean, MSG_MAX)]

\* slip: the error tier is tested before the critical tier
ScanLineErrorFirst(raw) ==
    LET clean == CleanLine(raw)
    IN  IF Strip(raw) = <<>> \/ ~KeywordMatched(clean) \/ WarnPattern(clean)
        THEN NoEvent
        ELSE [level |-> IF ErrorPattern(clean) THEN "ERROR"
                        ELSE IF CriticalPattern(clean) THEN "CRITICAL"
                        ELSE "ERROR",
              msg |-> Prefix(clean, MSG_MAX)]

\* body of `for line in logs.splitlines()`: the level and message of the
\* event appended for the line, NoEvent when the line is skipped
ScanLine(raw) ==
    IF Strip(raw) = <<>> THEN NoEvent
    ELSE LET clean == CleanLine(raw)
         IN  IF ~KeywordMatched(clean) THEN NoEvent
             ELSE IF WarnPattern(clean) THEN NoEvent
             ELSE [level |-> IF CriticalPattern(clean) THEN "CRITICAL"
                             ELSE IF ErrorPattern(clean) THEN "ERROR"
                             ELSE "ERROR",
                   msg |-> Prefix(clean, MSG_MAX)]

-----------------------------------------------------------------------------
(* The broker's retained messages and mqtt_publish *)

\* f"containers/{name}/{suffix}" below TOPIC_PREFIX
ContainerTopic(n, suffix) == <<"containers", n, suffix>>

\* f"system/{suffix}" below TOPIC_PREFIX
SystemTopic(suffix) == <<"system", suffix>>

UpdatesTopic(suffix) == <<"updates", suffix>>

\* client.publish(topic, payload, retain=True): the broker keeps the payload
mqtt_publish(ret, topic, payload) ==
    [t \in DOMAIN ret \cup {topic} |-> IF t = topic THEN payload ELSE ret[t]]

\* datetime.now(timezone.utc).isoformat(): a text that names the instant
IsoFormat(t) == <<t>>

-----------------------------------------------------------------------------
(* check_container_logs: scan of one container's log text and publication *)

ERRORS_KEEP == 5

KERNEL_KEEP == 10

\* the lines the containers write
ErrorLine ==
    <<"E", "R", "R", "O", "R", ":", " ", "d", "i", "s", "k", " ", "f", "u", "l", "l">>

CriticalLine ==
    <<"C", "R", "I", "T", "I", "C", "A", "L", ":", " ", "o", "o", "m">>

WarnLine ==
    <<"l", "e", "v", "e", "l", "=", "w", "a", "r", "n", " ", "r", "e", "t", "r", "y">>

\* a container's log stream; a fetch returns a window of it (since=300)
ContainerStream ==
    <<ErrorLine, WarnLine, CriticalLine, ErrorLine, ErrorLine, CriticalLine,
      ErrorLine, ErrorLine>>

\* every contiguous window of at most n lines of a stream
Windows(stream, n) ==
    {SubSeq(stream, w[1], w[2]) :
        w \in {v \in (1..Len(stream) + 1) \X (0..Len(stream)) :
                  v[2] >= v[1] - 1 /\ v[2] - v[1] + 1 <= n}}

\* ScanLine of the stream's lines, evaluated once
ScanTable ==
    [l \in {ContainerStream[i] : i \in 1..Len(ContainerStream)} |-> ScanLine(l)]

ScanOf(l) == IF l \in DOMAIN ScanTable THEN ScanTable[l] ELSE ScanLine(l)

\* the list `errors` built from logs.splitlines() at instant t
ScanLogs(logs, t) ==
    LET hits == SelectSeq(logs, LAMBDA l : ScanOf(l) # NoEvent)
    IN  [i \in 1..Len(hits) |->
            [level |-> ScanOf(hits[i]).level,
             msg |-> ScanOf(hits[i]).msg,
             timestamp |-> IsoFormat(t)]]

\* slip: errors[0]
FirstEvent(errs) == errs[1]

\* errors[-1]
LastEvent(errs) == errs[Len(errs)]

\* slip: errors[:5]
OldestErrors(errs) == Prefix(errs, ERRORS_KEEP)

\* errors[-5:]
RecentErrors(errs) == Suffix(errs, ERRORS_KEEP)

\* slip: a clean scan takes the container out of the set
MarkErroredOrClear(cwe, n, errs) ==
    IF errs # <<>> THEN cwe \cup {n} ELSE cwe \ {n}

\* `if errors: containers_with_errors.add(name)`
MarkErrored(cwe, n, errs) ==
    IF errs # <<>> THEN cwe \cup {n} ELSE cwe

NoneError == [level |-> "NONE", msg |-> <<"n", "o", "n", "e">>]

\* slip: the `elif name not in containers_with_errors` test is missing, a
\* clean scan always publishes NONE
PublishScanAlwaysNone(ret, n, errs, cwe) ==
    LET counted == mqtt_publish(ret, ContainerTopic(n, "error_count"), Len(errs))
    IN  IF errs # <<>>
        THEN mqtt_publish(
               mqtt_publish(
                 mqtt_publish(counted, ContainerTopic(n, "last_error"),
                              [level |-> LastEvent(errs).level,
                               msg |-> LastEvent(errs).msg]),
                 ContainerTopic(n, "last_error_level"), LastEvent(errs).level),
               ContainerTopic(n, "errors"), RecentErrors(errs))
        ELSE mqtt_publish(
               mqtt_publish(counted, ContainerTopic(n, "last_error"), NoneError),
               ContainerTopic(n, "last_error_level"), "NONE")

\* slip: the test is inverted, NONE is published only for containers that
\* had errors
PublishScanInverted(ret, n, errs, cwe) ==
    LET counted == mqtt_publish(ret, ContainerTopic(n, "error_count"), Len(errs))
    IN  IF errs # <<>>
        THEN mqtt_publish(
               mqtt_publish(
                 mqtt_publish(counted, ContainerTopic(n, "last_error"),
                              [level |-> LastEvent(errs).level,
                               msg |-> LastEvent(errs).msg]),
                 ContainerTopic(n, "last_error_level"), LastEvent(errs).level),
               ContainerTopic(n, "errors"), RecentErrors(errs))
        ELSE IF n \in cwe
        THEN mqtt_publish(
               mqtt_publish(counted, ContainerTopic(n, "last_error"), NoneError),
               ContainerTopic(n, "last_error_level"), "NONE")
        ELSE counted

\* monitor.py:200-209; cwe is containers_with_errors as line 206 reads it
PublishScan(ret, n, errs, cwe) ==
    LET counted == mqtt_publish(ret, ContainerTopic(n, "error_count"), Len(errs))
    IN  IF errs # <<>>
        THEN mqtt_publish(
               mqtt_publish(
                 mqtt_publish(counted, ContainerTopic(n, "last_error"),
                              [level |-> LastEvent(errs).level,
                               msg |-> LastEvent(errs).msg]),
                 ContainerTopic(n, "last_error_level"), LastEvent(errs).level),
               ContainerTopic(n, "errors"), RecentErrors(errs))
        ELSE IF n \notin cwe
        THEN mqtt_publish(
               mqtt_publish(counted, ContainerTopic(n, "last_error"), NoneError),
               ContainerTopic(n, "last_error_level"), "NONE")
        ELSE counted

\* monitor.py:166-168: the log fetch raised e
PublishFetchError(ret, n, e) ==
    mqtt_publish(ret, ContainerTopic(n, "last_error"),
                 [level |-> "ERROR", msg |-> e])

\* str(e) of the exceptions docker raises
FetchErrors == { <<"r", "e", "a", "d", " ", "t", "i", "m", "e", "o", "u", "t">> }

\* one iteration of `for name in get_containers()` for container n, whose
\* log text, when the fetch succeeds, is one of texts; the clock is read
\* once per scan, never goes back and shows at most latest
LogsBody(n, texts, latest) ==
    /\ discovered_containers' = discovered_containers \cup {n}
    /\ name' = n
    /\ \/ \E e \in FetchErrors :
            /\ retained' = PublishFetchError(retained, n, e)
            /\ outcome' = "fetch_failed"
            /\ UNCHANGED <<errors, containers_with_errors, now>>
       \/ \E logs \in texts, t \in now..latest :
            /\ now' = t
            /\ errors' = ScanLogs(logs, t)
            /\ containers_with_errors' =
                   MarkErrored(containers_with_errors, n, errors')
            /\ retained' = PublishScan(retained, n, errors',
                                       containers_with_errors')
            /\ outcome' = "scanned"

-----------------------------------------------------------------------------
(* check_kernel_errors *)

IoErrorLine ==
    <<"I", "/", "O", " ", "e", "r", "r", "o", "r", ",", " ", "d", "e", "v", " ", "s", "d", "a">>

NvmeLine ==
    <<"n", "v", "m", "e", "0", ":", " ", "r", "e", "s", "e", "t">>

UsbLine ==
    <<"u", "s", "b", " ", "1", "-", "1", ":", " ", "n", "e", "w", " ", "d", "e", "v", "i", "c", "e">>

\* the kernel ring buffer as it fills up; dmesg prints what it holds so far
KernelRing ==
    [i \in 1..(KERNEL_KEEP + 3) |->
        IF i = 3 THEN UsbLine ELSE IF i % 2 = 0 THEN NvmeLine ELSE IoErrorLine]

DmesgOutputs == {SubSeq(KernelRing, 1, j) : j \in 0..Len(KernelRing)}

\* any(kw in line for kw in KERNEL_ERROR_KEYWORDS)
KernelMatched(l) ==
    \E k \in 1..Len(KERNEL_ERROR_KEYWORDS) : Contains(l, KERNEL_ERROR_KEYWORDS[k])

\* KernelMatched of the ring's lines, evaluated once
KernelTable ==
    [l \in {KernelRing[i] : i \in 1..Len(KernelRing)} |-> KernelMatched(l)]

KernelMatchOf(l) ==
    IF l \in DOMAIN KernelTable THEN KernelTable[l] ELSE KernelMatched(l)

\* the list `matches` built from result.stdout.splitlines() at instant t
ScanDmesg(out, t) ==
    LET hits == SelectSeq(out, KernelMatchOf)
    IN  [i \in 1..Len(hits) |->
            [msg |-> Prefix(hits[i], MSG_MAX), timestamp |-> IsoFormat(t)]]

\* slip: matches[:10]
OldestMatches(m) == Prefix(m, KERNEL_KEEP)

\* matches[-10:]
RecentMatches(m) == Suffix(m, KERNEL_KEEP)

\* monitor.py:360-363
PublishKernel(ret, m) ==
    LET counted == mqtt_publish(ret, SystemTopic("io_error_count"), Len(m))
    IN  IF m # <<>>
        THEN mqtt_publish(
               mqtt_publish(counted, SystemTopic("last_io_error"), LastEvent(m)),
               SystemTopic("kernel_errors"), RecentMatches(m))
        ELSE counted

\* check_kernel_errors, dmesg printing one of outs when it succeeds
KernelBody(outs, latest) ==
    \/ /\ retained' = mqtt_publish(retained, SystemTopic("io_error_count"), 0)
       /\ outcome' \in {"dmesg_raised", "dmesg_nonzero"}
       /\ UNCHANGED <<matches, now>>
    \/ \E out \in outs, t \in now..latest :
        /\ now' = t
        /\ matches' = ScanDmesg(out, t)
        /\ retained' = PublishKernel(retained, matches')
        /\ outcome' = "dmesg_scanned"

\* monitor.py:135-138: the initial values publish_system_discovery publishes
SystemDiscovery(ret) ==
    mqtt_publish(
      mqtt_publish(
        mqtt_publish(ret, UpdatesTopic("status"), "idle"),
        SystemTopic("last_io_error"),
        [msg |-> <<"n", "o", "n", "e">>, timestamp |-> <<>>]),
      SystemTopic("io_error_count"), 0)

-----------------------------------------------------------------------------
(* Inputs of the classifier: every concatenation of at most MaxFrags       *)
(* fragments, and a few whole lines for the remaining alternatives         *)

Fragments ==
    { <<"E", "R", "R", "O", "R">>,
      <<"f", "a", "t", "a", "l">>,
      <<"W", "A", "R", "N">>,
      <<"I", "N", "G">>,
      <<"S">>,
      <<" ">>,
      <<"ESC", "[", "0", "m">>,
      <<"[", "1", "m">>,
      <<"l", "e", "v", "e", "l", "=">> }

RECURSIVE FragLines(_)
FragLines(n) ==
    IF n = 0 THEN {<<>>}
    ELSE LET shorter == FragLines(n - 1)
         IN  shorter \cup {p \o f : p \in shorter, f \in Fragments}

SampleLines ==
    { <<"2", "0", "2", "4", "-", "0", "1", "-", "0", "1", " ", "E", "R", "R", "O", "R", ":", " ", "d", "i", "s", "k", " ", "f", "u", "l", "l">>,
      <<"l", "e", "v", "e", "l", "=", "w", "a", "r", "n", " ", "m", "s", "g", "=", "r", "e", "t", "r", "y", "i", "n", "g">>,
      <<"C", "R", "I", "T", "I", "C", "A", "L", ":", " ", "o", "u", "t", " ", "o", "f", " ", "m", "e", "m", "o", "r", "y">>,
      <<"D", "[", "1", ";", "3", "1", "m", "W", "R", "N", " ", "e", "r", "r", "o", "r">>,
      <<"{", "\"", "l", "e", "v", "e", "l", "\"", ":", " ", "\"", "c", "r", "i", "t", "i", "c", "a", "l", "\"", "}", " ", "E", "R", "R", "O", "R">>,
      <<"{", "\"", "l", "e", "v", "e", "l", "\"", " ", ":", " ", "\"", "e", "r", "r", "o", "r", "\"", "}", " ", "e", "x", "c", "e", "p", "t", "i", "o", "n">>,
      <<"[", "W", "A", "R", "N", "X", " ", "f", "a", "t", "a", "l">>,
      <<"T", "r", "a", "c", "e", "b", "a", "c", "k", " ", "E", "x", "c", "e", "p", "t", "i", "o", "n">>,
      <<" ", "l", "e", "v", "e", "l", ":", "c", "r", "i", "t", "i", "c", "a", "l", " ", "e", "r", "r", "o", "r", " ">>,
      <<"l", "e", "v", "e", "l", ":", "w", "a", "r", "n", " ", "E", "R", "R", "O", "R">>,
      <<"F", "A", "T", "A", "L", " ", "E", "R", "R", "O", "R", ":", " ", "s", "e", "e", " ", "W", "A", "R", "N", "I", "N", "G", " ", "b", "e", "l", "o", "w">>,
      <<"s", "t", "a", "r", "t", "e", "d", " ", "o", "k">> }

RawLines == FragLines(MaxFrags) \cup SampleLines

-----------------------------------------------------------------------------
(* Shared initial values *)

EmptyRetained == [t \in {} |-> 0]

Pending == [level |-> "PENDING", msg |-> <<>>]

NoMessage == [topic |-> "none", payload |-> ""]

ClassifyIdle ==
    /\ line = <<>>
    /\ clean_line = <<>>
    /\ verdict = Pending

TrackerIdle ==
    /\ retained = EmptyRetained
    /\ containers_with_errors = {}
    /\ discovered_containers = {}
    /\ name = ""
    /\ errors = <<>>
    /\ matches = <<>>
    /\ outcome = "start"

LoopIdle ==
    /\ pc = "start"
    /\ todo = <<>>
    /\ update_triggered = FALSE
    /\ msg = NoMessage

-----------------------------------------------------------------------------
(* Specification of the classifier alone: one line in, one verdict out *)

ClassifyInit ==
    /\ line \in RawLines
    /\ clean_line = <<>>
    /\ verdict = Pending
    /\ TrackerIdle
    /\ LoopIdle
    /\ now = 0

ClassifyLine ==
    /\ verdict = Pending
    /\ clean_line' = CleanLine(line)
    /\ verdict' = ScanLine(line)
    /\ UNCHANGED <<line, trackerVars, loopVars, now>>

ClassifyNext == ClassifyLine

ClassifySpec == ClassifyInit /\ [][ClassifyNext]_vars

\* C5: a line whose cleaned text matches the warning-tier pattern yields no
\* event, whatever error keywords and critical or error patterns it matches
C5_WarningYieldsNoEvent ==
    (verdict # Pending /\ WarnPattern(clean_line)) => verdict = NoEvent

C5_Witness ==
    /\ verdict = NoEvent
    /\ WarnPattern(clean_line)
    /\ KeywordMatched(clean_line)
    /\ CriticalPattern(clean_line)
    /\ ErrorPattern(clean_line)

\* C6: a line that matches an error keyword and not the warning-tier pattern
\* is CRITICAL exactly when it matches the critical pattern, also when it
\* matches the error pattern too, and ERROR in every other case
C6_TierPrecedence ==
    (/\ verdict # Pending
     /\ Strip(line) # <<>>
     /\ KeywordMatched(clean_line)
     /\ ~WarnPattern(clean_line))
    => /\ verdict.level \in {"CRITICAL", "ERROR"}
       /\ verdict.level = "CRITICAL" <=> CriticalPattern(clean_line)

C6_Witness ==
    /\ verdict.level = "CRITICAL"
    /\ CriticalPattern(clean_line)
    /\ ErrorPattern(clean_line)
    /\ ~WarnPattern(clean_line)

-----------------------------------------------------------------------------
(* Specification of the tracker: scans of two containers in any order *)

Names == {"plex", "nginx"}

Init ==
    /\ ClassifyIdle
    /\ LoopIdle
    /\ retained = SystemDiscovery(EmptyRetained)
    /\ containers_with_errors = {}
    /\ discovered_containers = {}
    /\ name = ""
    /\ errors = <<>>
    /\ matches = <<>>
    /\ outcome = "start"
    /\ now = 0

CheckContainer ==
    /\ \E n \in Names : LogsBody(n, Windows(ContainerStream, MaxLines), MaxTime)
    /\ UNCHANGED <<classifyVars, loopVars, matches>>

Next == CheckContainer

Spec == Init /\ [][Next]_vars

\* the payload retained on topic t is v
Holds(ret, t, v) == t \in DOMAIN ret /\ ret[t] = v

\* the retained error content of container n: last error, level and list
ErrorContent(ret, n) ==
    [t \in {ContainerTopic(n, "last_error"), ContainerTopic(n, "last_error_level"),
            ContainerTopic(n, "errors")} \cap DOMAIN ret |-> ret[t]]

\* all retained payloads but the one on topic t
Except(ret, t) == [u \in DOMAIN ret \ {t} |-> ret[u]]

\* C1: once a container has had a scan with events, a scan that yields no
\* event changes nothing of what is retained except the container's error
\* count, which becomes 0; last_error, last_error_level and errors stay
C1_EmptyScanKeepsErrors ==
    [][(/\ outcome' = "scanned"
        /\ errors' = <<>>
        /\ name' \in containers_with_errors)
       => /\ ErrorContent(retained', name') = ErrorContent(retained, name')
          /\ Holds(retained', ContainerTopic(name', "error_count"), 0)
          /\ Except(retained', ContainerTopic(name', "error_count"))
               = Except(retained, ContainerTopic(name', "error_count"))]_vars

C1_Witness ==
    /\ outcome = "scanned"
    /\ errors = <<>>
    /\ name \in containers_with_errors
    /\ Holds(retained, ContainerTopic(name, "error_count"), 0)
    /\ Holds(retained, ContainerTopic(name, "last_error_level"), "CRITICAL")
    /\ Len(retained[ContainerTopic(name, "errors")]) > 1

\* C3 as claimed: a failed log fetch leaves last_error and last_error_level
\* at ERROR and the container in containers_with_errors
C3_FetchFailureAsScan ==
    outcome = "fetch_failed"
    => /\ \E e \in FetchErrors :
            Holds(retained, ContainerTopic(name, "last_error"),
                  [level |-> "ERROR", msg |-> e])
       /\ Holds(retained, ContainerTopic(name, "last_error_level"), "ERROR")
       /\ name \in containers_with_errors

\* C4: membership in containers_with_errors is never lost, and a scan with a
\* non-empty event list puts the container in the set
C4_Monotonic ==
    [][/\ containers_with_errors \subseteq containers_with_errors'
       /\ (outcome' = "scanned" /\ errors' # <<>>)
            => name' \in containers_with_errors']_vars

C4_Witness ==
    /\ outcome = "scanned"
    /\ errors = <<>>
    /\ containers_with_errors = Names

\* C7: after a scan with events, last_error and last_error_level are those
\* of the last event of the scan, whatever the severities before it
C7_LastEventWins ==
    (outcome = "scanned" /\ errors # <<>>)
    => /\ Holds(retained, ContainerTopic(name, "last_error"),
                [level |-> errors[Len(errors)].level,
                 msg |-> errors[Len(errors)].msg])
       /\ Holds(retained, ContainerTopic(name, "last_error_level"),
                errors[Len(errors)].level)

C7_Witness ==
    /\ outcome = "scanned"
    /\ Len(errors) = 2
    /\ errors[1].level = "CRITICAL"
    /\ errors[2].level = "ERROR"
    /\ Holds(retained, ContainerTopic(name, "last_error_level"), "ERROR")
    /\ retained[ContainerTopic(name, "last_error")].level = "ERROR"

\* C8: for a container that never had a scan with events, a scan with no
\* event publishes count 0 and the NONE sentinel
C8_NeverErroredPublishesNone ==
    (outcome = "scanned" /\ errors = <<>> /\ name \notin containers_with_errors)
    => /\ Holds(retained, ContainerTopic(name, "error_count"), 0)
       /\ Holds(retained, ContainerTopic(name, "last_error"), NoneError)
       /\ Holds(retained, ContainerTopic(name, "last_error_level"), "NONE")

C8_Witness ==
    /\ outcome = "scanned"
    /\ errors = <<>>
    /\ name \notin containers_with_errors
    /\ Holds(retained, ContainerTopic(name, "last_error"), NoneError)
    /\ Holds(retained, ContainerTopic(name, "error_count"), 0)

-----------------------------------------------------------------------------
(* Specification of retention: one container and the kernel, with windows  *)
(* long enough to overflow both retention caps                             *)

RetentionContainer ==
    /\ LogsBody("plex", Windows(ContainerStream, Len(ContainerStream)), MaxTime)
    /\ UNCHANGED <<classifyVars, loopVars, matches>>

RetentionKernel ==
    /\ KernelBody(DmesgOutputs, MaxTime)
    /\ UNCHANGED <<classifyVars, loopVars, containers_with_errors,
                   discovered_containers, name, errors>>

RetentionNext == RetentionContainer \/ RetentionKernel

RetentionSpec == Init /\ [][RetentionNext]_vars

\* the list retained on topic t, empty when nothing was published there
ListOn(ret, t) == IF t \in DOMAIN ret THEN ret[t] ELSE <<>>

\* kept is the most recent min(cap, Len(all)) entries of all, in order
IsMostRecent(kept, all, cap) ==
    /\ Len(kept) = (IF Len(all) < cap THEN Len(all) ELSE cap)
    /\ \A i \in 1..Len(kept) : kept[i] = all[Len(all) - Len(kept) + i]

\* C2 as claimed: each merge appends the new events to the entries retained
\* from earlier cycles and keeps the most recent N of them
C2_AppendsAcrossCycles ==
    [][/\ (outcome' = "scanned" /\ errors' # <<>>)
            => IsMostRecent(ListOn(retained', ContainerTopic(name', "errors")),
                            ListOn(retained, ContainerTopic(name', "errors")) \o errors',
                            ERRORS_KEEP)
       /\ (outcome' = "dmesg_scanned" /\ matches' # <<>>)
            => IsMostRecent(ListOn(retained', SystemTopic("kernel_errors")),
                            ListOn(retained, SystemTopic("kernel_errors")) \o matches',
                            KERNEL_KEEP)]_vars

\* C2 as amended: after a scan with k > 0 events the recent-errors list is
\* the most recent min(N, k) events of that scan alone, in log order; a scan
\* without events leaves the list alone; the list never exceeds N entries
C2_KeepsLatestScanOnly ==
    [][/\ (outcome' = "scanned" /\ errors' # <<>>)
            => IsMostRecent(ListOn(retained', ContainerTopic(name', "errors")),
                            errors', ERRORS_KEEP)
       /\ (outcome' = "scanned" /\ errors' = <<>>)
            => ListOn(retained', ContainerTopic(name', "errors"))
                 = ListOn(retained, ContainerTopic(name', "errors"))
       /\ (outcome' = "dmesg_scanned" /\ matches' # <<>>)
            => IsMostRecent(ListOn(retained', SystemTopic("kernel_errors")),
                            matches', KERNEL_KEEP)
       /\ (outcome' = "dmesg_scanned" /\ matches' = <<>>)
            => ListOn(retained', SystemTopic("kernel_errors"))
                 = ListOn(retained, SystemTopic("kernel_errors"))
       /\ Len(ListOn(retained', ContainerTopic("plex", "errors"))) <= ERRORS_KEEP
       /\ Len(ListOn(retained', SystemTopic("kernel_errors"))) <= KERNEL_KEEP]_vars

C2_Witness ==
    /\ Len(errors) > ERRORS_KEEP
    /\ Len(ListOn(retained, ContainerTopic("plex", "errors"))) = ERRORS_KEEP
    /\ retained[ContainerTopic("plex", "errors")][ERRORS_KEEP] = errors[Len(errors)]
    /\ Len(matches) > KERNEL_KEEP
    /\ Len(ListOn(retained, SystemTopic("kernel_errors"))) = KERNEL_KEEP
    /\ retained[SystemTopic("kernel_errors")][KERNEL_KEEP] = matches[Len(matches)]

-----------------------------------------------------------------------------
(* main() and the MQTT callback thread.  Every step of the main thread     *)
(* changes <<pc, todo>>; a step of the callback never does.                *)

TRIGGER_TOPIC == "updates/trigger"

\* slip: only the button's payload_press is accepted
AcceptedRunOnly(topic, payload) ==
    topic = TRIGGER_TOPIC /\ payload = "run"

\* monitor.py:369-371
Accepted(topic, payload) ==
    topic = TRIGGER_TOPIC /\ payload \in {"run", "1", "true"}

\* on_message, run by the MQTT thread at any time, for one of messages
OnMessage(messages) ==
    /\ \E m \in messages :
        /\ msg' = m
        /\ update_triggered' =
              (IF Accepted(m.topic, m.payload) THEN TRUE ELSE update_triggered)
    /\ UNCHANGED <<classifyVars, trackerVars, now, pc, todo>>

\* slip: no `except Exception` around the cycle, the process dies
LoopErrorHalts == "halted"

\* monitor.py:395-398: where main() goes on after a check raised
LoopErrorTarget == "sleep"

\* slip: a failed fetch ends the for loop (break instead of continue)
AfterFetchErrorBreak(rest) == "disk"

\* line 161: where check_container_logs goes on after an iteration, rest
\* being the names not yet iterated
AfterIteration(rest) == IF rest = <<>> THEN "disk" ELSE "scan"

\* line 168: `continue`
AfterFetchError(rest) == AfterIteration(rest)

PublishSystemDiscovery ==
    /\ pc = "start"
    /\ retained' = SystemDiscovery(retained)
    /\ pc' = "test"
    /\ outcome' = "discovery"
    /\ UNCHANGED <<classifyVars, containers_with_errors, discovered_containers,
                   name, errors, matches, now, todo, update_triggered, msg>>

\* line 385
TestTrigger ==
    /\ pc = "test"
    /\ pc' = (IF update_triggered THEN "clear" ELSE "logs")
    /\ outcome' = "test"
    /\ UNCHANGED <<classifyVars, retained, containers_with_errors,
                   discovered_containers, name, errors, matches, now, todo,
                   update_triggered, msg>>

\* line 386
ClearTrigger ==
    /\ pc = "clear"
    /\ update_triggered' = FALSE
    /\ pc' = "upgrade"
    /\ outcome' = "clear"
    /\ UNCHANGED <<classifyVars, retained, containers_with_errors,
                   discovered_containers, name, errors, matches, now, todo, msg>>

\* line 387, run_apt_upgrade up to the docker call
StartUpgrade ==
    /\ pc = "upgrade"
    /\ retained' = mqtt_publish(retained, UpdatesTopic("status"), "running")
    /\ pc' = "upgrading"
    /\ outcome' = "upgrade_started"
    /\ UNCHANGED <<classifyVars, containers_with_errors, discovered_containers,
                   name, errors, matches, now, todo, update_triggered, msg>>

\* run_apt_upgrade from the return of the docker call
FinishUpgrade ==
    /\ pc = "upgrading"
    /\ \E status \in {"done", "failed"} :
         retained' = mqtt_publish(retained, UpdatesTopic("status"), status)
    /\ pc' = "logs"
    /\ outcome' = "upgrade_finished"
    /\ UNCHANGED <<classifyVars, containers_with_errors, discovered_containers,
                   name, errors, matches, now, todo, update_triggered, msg>>

\* check_container_logs: the call of get_containers, which returns one of
\* lists, or [] when docker fails
GetContainers(lists) ==
    /\ pc = "logs"
    /\ \/ \E list \in lists :
            /\ todo' = list
            /\ pc' = AfterIteration(list)
            /\ outcome' = "listed"
       \/ /\ todo' = <<>>
          /\ pc' = AfterIteration(<<>>)
          /\ outcome' = "list_failed"
    /\ UNCHANGED <<classifyVars, retained, containers_with_errors,
                   discovered_containers, name, errors, matches, now,
                   update_triggered, msg>>

\* check_container_logs: one iteration of the for loop
ScanNext(texts) ==
    /\ pc = "scan"
    /\ todo # <<>>
    /\ LogsBody(Head(todo), texts, now)
    /\ todo' = Tail(todo)
    /\ pc' = (IF outcome' = "fetch_failed" THEN AfterFetchError(Tail(todo))
              ELSE AfterIteration(Tail(todo)))
    /\ UNCHANGED <<classifyVars, matches, update_triggered, msg>>

\* check_container_disk, check_container_stats, check_container_health and
\* check_updates publish on topics of their own, which are not tracked; a
\* failing docker call is caught inside each of them
CheckDisk ==
    /\ pc = "disk"
    /\ pc' = "stats"
    /\ outcome' \in {"disk", "disk_failed"}
    /\ UNCHANGED <<classifyVars, retained, containers_with_errors,
                   discovered_containers, name, errors, matches, now, todo,
                   update_triggered, msg>>

\* float() at lines 263-264 raises on a malformed percentage; only main()
\* catches that
CheckStats ==
    /\ pc = "stats"
    /\ \/ /\ pc' = "health"
          /\ outcome' \in {"stats", "stats_failed"}
       \/ /\ pc' = LoopErrorTarget
          /\ outcome' = "loop_error"
    /\ UNCHANGED <<classifyVars, retained, containers_with_errors,
                   discovered_containers, name, errors, matches, now, todo,
                   update_triggered, msg>>

CheckHealth ==
    /\ pc = "health"
    /\ pc' = "updates"
    /\ outcome' \in {"health", "health_failed"}
    /\ UNCHANGED <<classifyVars, retained, containers_with_errors,
                   discovered_containers, name, errors, matches, now, todo,
                   update_triggered, msg>>

CheckUpdates ==
    /\ pc = "updates"
    /\ pc' = "kernel"
    /\ outcome' \in {"updates", "updates_failed"}
    /\ UNCHANGED <<classifyVars, retained, containers_with_errors,
                   discovered_containers, name, errors, matches, now, todo,
                   update_triggered, msg>>

CheckKernel(outs) ==
    /\ pc = "kernel"
    /\ KernelBody(outs, now)
    /\ pc' = "sleep"
    /\ UNCHANGED <<classifyVars, containers_with_errors, discovered_containers,
                   name, errors, todo, update_triggered, msg>>

\* line 398
Sleep ==
    /\ pc = "sleep"
    /\ pc' = "test"
    /\ outcome' = "slept"
    /\ UNCHANGED <<classifyVars, retained, containers_with_errors,
                   discovered_containers, name, errors, matches, now, todo,
                   update_triggered, msg>>

MainThread(lists, texts, outs) ==
    \/ PublishSystemDiscovery
    \/ TestTrigger
    \/ ClearTrigger
    \/ StartUpgrade
    \/ FinishUpgrade
    \/ GetContainers(lists)
    \/ ScanNext(texts)
    \/ CheckDisk
    \/ CheckStats
    \/ CheckHealth
    \/ CheckUpdates
    \/ CheckKernel(outs)
    \/ Sleep

LoopInit ==
    /\ ClassifyIdle
    /\ TrackerIdle
    /\ LoopIdle
    /\ now = 0

-----------------------------------------------------------------------------
(* Specification of the polling cycle: two containers, every failure, and  *)
(* the button's message.  Every call of the main thread returns or raises, *)
(* so the thread always takes its next step; nothing is assumed of the     *)
(* arrival of messages.                                                    *)

LoopLists == {<<"plex", "nginx">>, <<"nginx">>}

LoopTexts == {<<>>, <<ErrorLine>>}

LoopDmesg == {<<>>, <<IoErrorLine>>}

LoopMessages == {[topic |-> TRIGGER_TOPIC, payload |-> "run"]}

LoopMain == MainThread(LoopLists, LoopTexts, LoopDmesg)

LoopNext == LoopMain \/ OnMessage(LoopMessages)

LoopSpec == LoopInit /\ [][LoopNext]_vars /\ WF_vars(LoopMain)

Range(list) == {list[i] : i \in 1..Len(list)}

\* C9: a failure inside a cycle halts nothing.  A failed log fetch leaves
\* the counts, levels, lists and the set as they were and goes on with the
\* remaining containers, each of which is then scanned; a failing dmesg
\* publishes count 0 and a failing docker listing publishes nothing; a check
\* that raises ends the cycle only; and the loop starts cycle after cycle
C9_FailuresDoNotHalt ==
    /\ [][/\ (outcome' = "fetch_failed" /\ todo' # todo)
               => /\ todo' = Tail(todo)
                  /\ pc' = (IF todo' = <<>> THEN "disk" ELSE "scan")
                  /\ containers_with_errors' = containers_with_errors
                  /\ Except(retained', ContainerTopic(name', "last_error"))
                       = Except(retained, ContainerTopic(name', "last_error"))
          /\ (outcome' \in {"dmesg_raised", "dmesg_nonzero"} /\ pc' # pc)
               => /\ pc' = "sleep"
                  /\ Holds(retained', SystemTopic("io_error_count"), 0)
                  /\ Except(retained', SystemTopic("io_error_count"))
                       = Except(retained, SystemTopic("io_error_count"))
          /\ (outcome' = "list_failed" /\ pc' # pc)
               => pc' = "disk" /\ retained' = retained
          /\ (outcome' = "loop_error" /\ pc' # pc)
               => pc' = "sleep" /\ retained' = retained]_vars
    /\ \A n \in Names :
          (pc = "scan" /\ n \in Range(todo))
            ~> (name = n /\ n \notin Range(todo)
                  /\ outcome \in {"scanned", "fetch_failed"})
    /\ []<>(pc = "test")

C9_Witness ==
    /\ outcome = "fetch_failed"
    /\ name = "plex"
    /\ todo = <<"nginx">>
    /\ pc = "scan"
    /\ "plex" \in containers_with_errors

-----------------------------------------------------------------------------
(* Specification of the update trigger: every kind of message, one         *)
(* container with a quiet log                                              *)

TriggerLists == {<<"plex">>}

TriggerTexts == {<<>>}

TriggerDmesg == {<<>>}

TriggerMessages ==
    [topic : {TRIGGER_TOPIC, "updates/status"},
     payload : {"run", "1", "true", "stop"}]

TriggerMain == MainThread(TriggerLists, TriggerTexts, TriggerDmesg)

TriggerNext == TriggerMain \/ OnMessage(TriggerMessages)

TriggerSpec == LoopInit /\ [][TriggerNext]_vars /\ WF_vars(TriggerMain)

\* C10: a message sets update_triggered exactly when it is on the trigger
\* topic with payload run, 1 or true; the flag, once set, leads to a call of
\* run_apt_upgrade, wherever the main thread is when the message arrives;
\* and run_apt_upgrade is called only after the flag was read as set
C10_NoTriggerLost ==
    /\ [][/\ (pc' = pc /\ todo' = todo)
               => update_triggered'
                    = (\/ update_triggered
                       \/ /\ msg'.topic = "updates/trigger"
                          /\ msg'.payload \in {"run", "1", "true"})
          /\ (pc' = "clear" /\ pc # "clear") => update_triggered
          /\ (pc' = "upgrade" /\ pc # "upgrade") => pc = "clear"
          /\ (pc' = "upgrading" /\ pc # "upgrading") => pc = "upgrade"]_vars
    /\ update_triggered ~> (pc = "upgrade")
    /\ (pc = "upgrade") ~> (pc = "upgrading")

C10_Witness ==
    /\ pc = "upgrading"
    /\ update_triggered
    /\ msg = [topic |-> TRIGGER_TOPIC, payload |-> "true"]

====
